---- MODULE Spec2Model ----
(***************************************************************************)
(* Lifecycle, lazy loading, off-loop sampling and parameter resolution of  *)
(* ZImageGenerator (src/src/generators/zimage_generator.py) on top of      *)
(* ImageGenerator (src/src/generators/base_generator.py).                  *)
(*                                                                         *)
(* One generator instance is driven from one asyncio event loop.  Code     *)
(* that runs on the loop thread between two awaits is one action.  The     *)
(* lambda handed to run_in_executor runs on a pool thread, so its start    *)
(* and its end are actions of their own, and cleanup, whose key-by-key     *)
(* deletion a pool thread can observe, advances one deletion at a time     *)
(* while it keeps the loop thread busy.  _save_image is modelled down to    *)
(* the path it builds and the bytes it writes, and get_image_generator      *)
(* (src/src/generators/factory.py) as the function of the selector it is.  *)
(***************************************************************************)
EXTENDS Integers, Sequences, FiniteSets, TLC

(* ------------------------------ bounds --------------------------------- *)

\* number of generate / generate_image calls (coroutines) in one behaviour
NumCoroutines == 2

\* number of times load_from_local_dir may be invoked between two cleanups
MaxLoads == 2

(* -------------------------- program constants -------------------------- *)

\* config.image.height / config.image.width
ConfigHeight == 768
ConfigWidth == 1360

\* num_inference_steps or 8
DefaultSteps == 8

\* Seeds are written in two 16-bit words, hi * 2^16 + lo, so that the whole
\* range of torch.randint(0, 2**32, (1,)) fits the checker's integers
WordBase == 2 ^ 16
SeedOf(hi, lo) == [hi |-> hi, lo |-> lo]

\* 0 <= s < 2**32, the range torch.randint(0, 2**32, (1,)) draws from
InSeedRange(s) == s.hi \in 0..(WordBase - 1) /\ s.lo \in 0..(WordBase - 1)

\* guidance_scale = 0.0, in tenths
PinnedGuidance == 0

Coroutines == 1..NumCoroutines

\* the mapping returned by load_from_local_dir, in insertion order
ComponentKeys == <<"transformer", "vae", "text_encoder", "tokenizer", "scheduler">>

KeySet == {ComponentKeys[i] : i \in 1..Len(ComponentKeys)}

(* ------------------------- optional parameters ------------------------- *)

\* Optional[int] / Optional[float]: None or a number
NoneInt == [set |-> FALSE, val |-> 0]
SomeInt(v) == [set |-> TRUE, val |-> v]

\* Optional[int] for the seed
NoneSeed == [set |-> FALSE, val |-> SeedOf(0, 0)]
SomeSeed(hi, lo) == [set |-> TRUE, val |-> SeedOf(hi, lo)]

\* Optional[str]
NoneStr == [set |-> FALSE, val |-> ""]
SomeStr(s) == [set |-> TRUE, val |-> s]

\* Python truthiness of an Optional[int]: None and 0 are falsy
TruthyInt(o) == o.set /\ o.val # 0

\* Python truthiness of an Optional[str]: None and "" are falsy
TruthyStr(o) == o.set /\ o.val # ""

VARIABLES
    env,          \* what the process finds around it: source tree, weights, attention
                  \* backend, accelerators, and config.system.cpu_only
    gen,          \* the attributes __init__ assigns and nothing assigns again
    backend,      \* the attention backend in effect in the process
    available,    \* what the last get_available_models() call returned
    info,         \* the mapping a get_model_info() call returned, as its caller holds it
    components,   \* self.components
    pipe,         \* self.pipe
    loop,         \* what the event-loop thread is inside of
    calls,        \* the generate coroutines
    artifacts,    \* the files under output_dir: path, bytes, and the call that wrote them
    dirs,         \* the directories under and including output_dir
    clock,        \* the position of datetime.now() in Instants
    made,         \* what the last get_image_generator call returned or raised
    loaderCalls,  \* invocations of load_from_local_dir since the last cleanup
    last,         \* outcome of the last load_model() / cleanup() called directly
    bench         \* run_benchmark: its position, its generator and the ones it left behind

vars == <<env, gen, backend, available, info, components, pipe, loop, calls, artifacts, dirs, clock, made, loaderCalls, last, bench>>

(* ----------------------------- construction ---------------------------- *)

\* the names set_attention_backend is configured with
Backends == {"_native_flash", "_flash_3", "_sdpa", "flash"}

\* the backend the Z-Image library uses until set_attention_backend is called
DefaultBackend == "library default"

\* the configuration the tests construct the generator from
TestConfig ==
    [zimage_model_path |-> [set |-> TRUE, val |-> "/tmp/fake_zimage_model"],
     zimage_attention |-> "_native_flash",
     zimage_compile |-> FALSE]

\* a configuration whose zimage_model_path was left unset (None)
NoPathConfig == [TestConfig EXCEPT !.zimage_model_path = [set |-> FALSE, val |-> ""]]

\* the source tree with its zimage package, the weights, an attention backend
\* the library accepts, CUDA available and config.system.cpu_only off
TestEnv ==
    [src |-> TRUE, pkg |-> TRUE, weights |-> TRUE, attn |-> TRUE,
     cpu_only |-> FALSE, cuda |-> TRUE, mps |-> FALSE]

\* the environments the lifecycle is followed in: every combination of what can
\* be missing on disk (ref-repos/Z-Image/src/zimage lies inside
\* ref-repos/Z-Image/src), on the accelerator of TestEnv
EnvStates ==
    {[TestEnv EXCEPT !.src = f.src, !.pkg = f.pkg, !.weights = f.weights,
                     !.attn = f.attn] :
        f \in {x \in [src : BOOLEAN, pkg : BOOLEAN, weights : BOOLEAN, attn : BOOLEAN] :
                  x.pkg => x.src}}

\* the accelerators and the cpu_only setting a process can find itself with
Hardware == [cpu_only : BOOLEAN, cuda : BOOLEAN, mps : BOOLEAN]

\* an environment with the accelerators and the cpu_only setting of h
WithHardware(e, h) == [e EXCEPT !.cpu_only = h.cpu_only, !.cuda = h.cuda, !.mps = h.mps]

\* everything in place on disk, under every combination of accelerators
DeviceEnvs == {WithHardware(TestEnv, h) : h \in Hardware}

\* a selection that tries MPS before CUDA
GetDeviceMpsFirst(e) ==
    IF e.cpu_only THEN "cpu"
    ELSE IF e.mps THEN "mps"
    ELSE IF e.cuda THEN "cuda"
    ELSE "cpu"

\* ImageGenerator._get_device(); mps stands for
\* hasattr(torch.backends, "mps") and torch.backends.mps.is_available()
GetDevice(e) ==
    IF e.cpu_only THEN "cpu"
    ELSE IF e.cuda THEN "cuda"
    ELSE IF e.mps THEN "mps"
    ELSE "cpu"

\* Path(None) raising in __init__ (line 37)
PathTypeError == [type |-> "TypeError", path |-> "", remedy |-> ""]

\* what ZImageGenerator(config) raises: Path(config.model.zimage_model_path)
\* accepts a str or a path, not None
ConstructError(config) ==
    IF config.zimage_model_path.set THEN [type |-> "", path |-> "", remedy |-> ""]
    ELSE PathTypeError

\* the attributes the object has when __init__ is left: ImageGenerator.__init__
\* assigns config, pipe and device (line 36), then lines 37-40 assign the rest in
\* order, up to the line that raises
AssignedAttrs(config) ==
    IF config.zimage_model_path.set
    THEN {"config", "pipe", "device", "model_path", "attention_backend",
          "compile_model", "components"}
    ELSE {"config", "pipe", "device"}

\* the attributes ImageGenerator.__init__ and ZImageGenerator.__init__ assign
NewGen(e, config) ==
    [device |-> GetDevice(e),
     model_path |-> config.zimage_model_path.val,
     attention_backend |-> IF "attention_backend" \in AssignedAttrs(config)
                           THEN config.zimage_attention ELSE "",
     compile_model |-> "compile_model" \in AssignedAttrs(config) /\ config.zimage_compile,
     attrs |-> AssignedAttrs(config)]

\* no get_model_info() call was made
NoInfo == [held |-> "none", tampered |-> FALSE, value |-> [device |-> ""]]

\* a get_model_info that keeps one mapping and hands it out again
GetModelInfoResultCached(g, inf) ==
    IF inf.held # "none" THEN inf.value
    ELSE [device |-> g.device, model_type |-> "ZImageGenerator",
          model_name |-> "Z-Image-Turbo", model_path |-> g.model_path,
          parameters |-> "6B", architecture |-> "Single-Stream DiT (S3-DiT)",
          inference_steps |-> 8, attention_backend |-> g.attention_backend,
          compiled |-> g.compile_model,
          features |-> <<"Photorealistic generation", "Bilingual text rendering (EN/ZH)",
                         "Fast inference (8 steps)", "16GB VRAM compatible">>]

\* get_model_info(): the dict of ImageGenerator.get_model_info updated with the
\* Z-Image entries.  inf is what an earlier call handed out; the dict and its
\* features list are built anew from literals and self's attributes
GetModelInfoResult(g, inf) ==
    [device |-> g.device, model_type |-> "ZImageGenerator",
     model_name |-> "Z-Image-Turbo", model_path |-> g.model_path,
     parameters |-> "6B", architecture |-> "Single-Stream DiT (S3-DiT)",
     inference_steps |-> 8, attention_backend |-> g.attention_backend,
     compiled |-> g.compile_model,
     features |-> <<"Photorealistic generation", "Bilingual text rendering (EN/ZH)",
                    "Fast inference (8 steps)", "16GB VRAM compatible">>]

\* what a caller does to a mapping it was handed: info["device"] = ...,
\* info["features"].clear()
Tamper(value) == [value EXCEPT !.device = "tampered", !.features = <<>>]

(* ------------------------------- errors -------------------------------- *)

NoError == [type |-> "", path |-> "", remedy |-> ""]

\* raise ImportError(f"Z-Image source not found at {zimage_src}. Clone Z-Image repo: git clone ...")
SourceNotFound ==
    [type |-> "ImportError", path |-> "ref-repos/Z-Image/src",
     remedy |-> "git clone https://github.com/Tongyi-MAI/Z-Image ref-repos/Z-Image"]

\* raise FileNotFoundError(f"Z-Image model not found at {self.model_path}. Download ...")
ModelNotFound ==
    [type |-> "FileNotFoundError", path |-> "model_path",
     remedy |-> "huggingface-cli download Tongyi-MAI/Z-Image-Turbo --local-dir <path>"]

\* `from zimage import generate` finding no package zimage on sys.path
ZimageNotImportable == [type |-> "ModuleNotFoundError", path |-> "", remedy |-> ""]

\* set_attention_backend(self.attention_backend) refusing the configured name
AttentionError == [type |-> "AttentionBackendError", path |-> "", remedy |-> ""]

\* zimage_generate(prompt=prompt, **self.components, ...) with components None
\* or with keys already deleted
WorkerTypeError == [type |-> "TypeError", path |-> "", remedy |-> ""]

(* ----------------------------- components ------------------------------ *)

NoComponents == [none |-> TRUE, id |-> 0, keys |-> {}, device |-> ""]

\* a mapping produced by load_from_local_dir(model_dir, device=dev, ...); id is
\* the identity of the object
Loaded(id, dev) == [none |-> FALSE, id |-> id, keys |-> KeySet, device |-> dev]

\* _get_zimage_src_path() without its exists() test
GetZimageSrcPathUnchecked(e) == NoError

\* self._get_zimage_src_path(): the path, or ImportError
GetZimageSrcPath(e) == IF e.src THEN NoError ELSE SourceNotFound


(* ------------------------------ load_model ----------------------------- *)

\* a load_model that asks _get_device() again
LoadModelResultReprobing(e, g, comps, fresh) ==
    IF ~e.src \/ ~e.weights
    THEN [err |-> IF ~e.src THEN SourceNotFound ELSE ModelNotFound,
          components |-> comps, called |-> FALSE, applied |-> FALSE]
    ELSE [err |-> IF e.attn THEN NoError ELSE AttentionError,
          components |-> Loaded(fresh, GetDevice(e)), called |-> TRUE,
          applied |-> e.attn]

\* load_model() of a generator with attributes g, as a function of what it finds:
\* the error it raises (NoError when it returns), the value self.components holds
\* afterwards, whether load_from_local_dir was invoked, and whether
\* set_attention_backend took effect.  fresh is the identity of the mapping a new
\* invocation returns.
LoadModelResult(e, g, comps, fresh) ==
    IF GetZimageSrcPath(e) # NoError
    THEN [err |-> GetZimageSrcPath(e), components |-> comps, called |-> FALSE,
          applied |-> FALSE]
    ELSE IF ~e.weights
    THEN [err |-> ModelNotFound, components |-> comps, called |-> FALSE,
          applied |-> FALSE]
    ELSE [err |-> IF e.attn THEN NoError ELSE AttentionError,
          components |-> Loaded(fresh, g.device), called |-> TRUE,
          applied |-> e.attn]

\* the backend in effect after a load_model() with outcome r
SetAttentionBackend(b, g, r) == IF r.applied THEN g.attention_backend ELSE b

\* the loader-invocation count after a load_model() with outcome r
CountLoad(lc, r) == IF r.called THEN lc + 1 ELSE lc

(* ------------------------------- cleanup ------------------------------- *)

AttributeError == [type |-> "AttributeError", path |-> "", remedy |-> ""]

\* cleanup() without `if self.components is not None:`: None has no keys()
CleanupEntryUnguarded(comps) ==
    [err |-> IF comps.none THEN AttributeError ELSE NoError,
     left |-> IF comps.none THEN <<>>
              ELSE SelectSeq(ComponentKeys, LAMBDA k : k \in comps.keys)]

\* cleanup() entry: `if self.components is not None:` and the snapshot
\* list(self.components.keys()) it then iterates
CleanupEntry(comps) ==
    [err |-> NoError,
     left |-> IF comps.none THEN <<>>
              ELSE SelectSeq(ComponentKeys, LAMBDA k : k \in comps.keys)]

\* `del self.components[key]`
DeleteKey(comps, k) == [comps EXCEPT !.keys = @ \ {k}]

\* cleanup() without its `self.components = None`: the emptied mapping stays
CleanupKeepsMapping(comps) == comps

\* `self.components = None` after the deletions (nothing to do when already None)
CleanupComponents(comps) == NoComponents

\* ImageGenerator.cleanup(): `del self.pipe; self.pipe = None`
BaseCleanup(p) == "None"

(* ------------------------- parameter resolution ------------------------ *)

\* the configured height for every call, the caller's ignored
ResolveHeightConfig(h) == ConfigHeight

\* height = height or self.config.image.height
ResolveHeight(h) == IF TruthyInt(h) THEN h.val ELSE ConfigHeight

\* width = width or self.config.image.width
ResolveWidth(w) == IF TruthyInt(w) THEN w.val ELSE ConfigWidth

\* the step count fixed at the Turbo default, the caller's ignored
ResolveStepsFixed(s) == DefaultSteps

\* num_inference_steps = num_inference_steps or 8
ResolveSteps(s) == IF TruthyInt(s) THEN s.val ELSE DefaultSteps

\* `seed = seed or torch.randint(...)`: a caller's 0 counts as no seed
ResolveSeedTruthy(s, draw) == IF s.set /\ s.val # SeedOf(0, 0) THEN s.val ELSE draw

\* a seed drawn for every call, the caller's ignored
ResolveSeedDrawn(s, draw) == draw

\* seed = seed if seed is not None else torch.randint(0, 2**32, (1,)).item()
ResolveSeed(s, draw) == IF s.set THEN s.val ELSE draw

\* the caller's guidance_scale passed through when given
ResolveGuidanceGiven(g) == IF g.set THEN g.val ELSE PinnedGuidance

\* guidance_scale = 0.0
ResolveGuidance(g) == PinnedGuidance

\* generate without its logger.warning call
NegativePromptUnwarned(n) == 0

\* `if negative_prompt: logger.warning(...)`: the number of warning events
NegativePromptWarnings(n) == IF TruthyStr(n) THEN 1 ELSE 0

\* torch.Generator(device=self.device).manual_seed(seed): a fresh generator
ManualSeed(dev, seed) == [device |-> dev, initial_seed |-> seed, offset |-> 0]

\* the locals of generate after "Apply defaults from config" (lines 131-138)
Resolve(kw, draw) ==
    [height |-> ResolveHeight(kw.height),
     width |-> ResolveWidth(kw.width),
     num_inference_steps |-> ResolveSteps(kw.num_inference_steps),
     seed |-> ResolveSeed(kw.seed, draw),
     guidance_scale |-> ResolveGuidance(kw.guidance_scale)]

NoLocals ==
    [height |-> 0, width |-> 0, num_inference_steps |-> 0, seed |-> SeedOf(0, 0),
     guidance_scale |-> 0]

\* the keyword arguments of the zimage_generate call, components aside
SamplerArgs(prompt, r, dev) ==
    [prompt |-> prompt,
     height |-> r.height,
     width |-> r.width,
     num_inference_steps |-> r.num_inference_steps,
     guidance_scale |-> r.guidance_scale,
     generator |-> ManualSeed(dev, r.seed)]

NoArgs ==
    [prompt |-> "", height |-> 0, width |-> 0, num_inference_steps |-> 0,
     guidance_scale |-> 0, generator |-> ManualSeed("", SeedOf(0, 0))]

\* GenerationResult(...) with its metadata, built from the same locals and the
\* path _save_image returned
MakeResult(prompt, r, path, g) ==
    [built |-> TRUE,
     image_path |-> path,
     prompt |-> prompt,
     model |-> "zimage",
     seed |-> r.seed,
     steps |-> r.num_inference_steps,
     metadata |-> [model |-> "Z-Image-Turbo", model_path |-> g.model_path,
                   height |-> r.height, width |-> r.width,
                   steps |-> r.num_inference_steps,
                   guidance_scale |-> r.guidance_scale,
                   attention_backend |-> g.attention_backend,
                   compiled |-> g.compile_model,
                   device |-> g.device]]

NoResult ==
    [built |-> FALSE, image_path |-> [parts |-> <<>>, stem |-> "", suffix |-> ""],
     prompt |-> "", model |-> "", seed |-> SeedOf(0, 0), steps |-> 0,
     metadata |-> [model |-> "", model_path |-> "",
                   height |-> 0, width |-> 0, steps |-> 0, guidance_scale |-> 0,
                   attention_backend |-> "", compiled |-> FALSE, device |-> ""]]

(* ------------------------------- kwargs -------------------------------- *)

Kwargs(p, n, h, w, s, g, sd) ==
    [prompt |-> p, negative_prompt |-> n, height |-> h, width |-> w,
     num_inference_steps |-> s, guidance_scale |-> g, seed |-> sd]

\* self.generate(prompt=prompt), as generate_image calls it
PromptOnly(p) == Kwargs(p, NoneStr, NoneInt, NoneInt, NoneInt, NoneInt, NoneSeed)

\* gen.generate(prompt="Test prompt", height=1024, width=1024, seed=42)
KwTestGenerate ==
    Kwargs("Test prompt", NoneStr, SomeInt(1024), SomeInt(1024), NoneInt, NoneInt,
           SomeSeed(0, 42))


\* gen.generate(prompt, seed=0, guidance_scale=3.5): a falsy seed, a guidance override
KwSeedZero ==
    Kwargs("A red cube", NoneStr, NoneInt, NoneInt, NoneInt, SomeInt(35), SomeSeed(0, 0))

\* gen.generate(prompt, negative_prompt=..., num_inference_steps=4, seed=2**32 + 7):
\* a seed above the range the drawn seeds come from
KwLargeSeed ==
    Kwargs("A red cube", SomeStr("blurry"), NoneInt, NoneInt, SomeInt(4), NoneInt,
           SomeSeed(WordBase, 7))

\* gen.generate(prompt, negative_prompt="", height=0, width=0, num_inference_steps=0):
\* every optional parameter supplied with its falsy value
KwFalsy ==
    Kwargs("A red cube", SomeStr(""), SomeInt(0), SomeInt(0), SomeInt(0), NoneInt,
           NoneSeed)

\* the calls the interleaving specification issues
ScenarioKwargs == {KwTestGenerate}

\* the calls the sequential specification issues through generate; the call with
\* the prompt alone it issues through generate_image
SeqKwargs == {KwTestGenerate, KwSeedZero, KwLargeSeed, KwFalsy}

\* results of torch.randint(0, 2**32, (1,)).item(): both ends of the range
Draws == {SeedOf(0, 0), SeedOf(WordBase - 1, WordBase - 1)}

\* the draw the interleaving specification makes
OneDraw == {SeedOf(WordBase - 1, WordBase - 1)}

(* ------------------------------ _save_image ---------------------------- *)

\* config.system.output_dir
OutputDir == "/tmp/test_output"

\* values of datetime.now(), in the order the clock passes them: 1 January 2025,
\* two consecutive seconds of 1 October 2025, the last second of 29 December 2025,
\* 5 January 2026
Instants ==
    << [year |-> 2025, month |-> 1, day |-> 1, hour |-> 8, minute |-> 30, second |-> 0],
       [year |-> 2025, month |-> 10, day |-> 1, hour |-> 12, minute |-> 0, second |-> 0],
       [year |-> 2025, month |-> 10, day |-> 1, hour |-> 12, minute |-> 0, second |-> 1],
       [year |-> 2025, month |-> 12, day |-> 29, hour |-> 23, minute |-> 59, second |-> 59],
       [year |-> 2026, month |-> 1, day |-> 5, hour |-> 9, minute |-> 5, second |-> 3] >>

IsLeap(y) == y % 4 = 0 /\ (y % 100 # 0 \/ y % 400 = 0)

\* the days of a common year that precede each month
DaysBeforeMonthCommon == <<0, 31, 59, 90, 120, 151, 181, 212, 243, 273, 304, 334>>

\* the days of year y that precede the first day of month m
DaysBeforeMonth(y, m) ==
    DaysBeforeMonthCommon[m] + (IF m > 2 /\ IsLeap(y) THEN 1 ELSE 0)

\* date.toordinal(): 1 for 1 January of year 1
Ordinal(y, m, d) ==
    LET p == y - 1
    IN  (p * 365) + (p \div 4) - (p \div 100) + (p \div 400) + DaysBeforeMonth(y, m) + d

\* the ordinal of the Monday that starts ISO week 1 of year y
IsoWeek1Monday(y) ==
    LET firstday == Ordinal(y, 1, 1)
        firstweekday == (firstday + 6) % 7
        monday == firstday - firstweekday
    IN  IF firstweekday > 3 THEN monday + 7 ELSE monday

\* now.isocalendar()[1]
IsoWeek(t) ==
    LET today == Ordinal(t.year, t.month, t.day)
        week == (today - IsoWeek1Monday(t.year)) \div 7
    IN  IF week < 0
        THEN ((today - IsoWeek1Monday(t.year - 1)) \div 7) + 1
        ELSE IF week >= 52 /\ today >= IsoWeek1Monday(t.year + 1)
        THEN 1
        ELSE week + 1

\* f"{n:d}": no padding
Pad2None(n) == ToString(n)

\* f"{n:02d}" and strftime's %m %d %H %M %S, for 0 <= n
Pad2(n) == IF n < 10 THEN "0" \o ToString(n) ELSE ToString(n)

\* now.strftime("%Y%m%d_%H%M%S")
Strftime(t) ==
    ToString(t.year) \o Pad2(t.month) \o Pad2(t.day) \o "_"
        \o Pad2(t.hour) \o Pad2(t.minute) \o Pad2(t.second)

\* a prompt whose characters take two, three and four bytes in UTF-8, written
\* as its Python literal
PromptUnicode == "caf\\xe9 \\u4e2d \\U0001f600"

\* the code points of the prompts the model issues
CodePoints(p) ==
    CASE p = "A red cube" -> <<65, 32, 114, 101, 100, 32, 99, 117, 98, 101>>
      [] p = "Test prompt" -> <<84, 101, 115, 116, 32, 112, 114, 111, 109, 112, 116>>
      [] p = PromptUnicode -> <<99, 97, 102, 233, 32, 20013, 32, 128512>>
      [] OTHER -> <<>>

\* hashlib.md5(prompt.encode()).hexdigest()[:8], tabulated for those prompts
PromptHash(p) ==
    CASE p = "A red cube" -> "6b4e30f4"
      [] p = "Test prompt" -> "e6f45270"
      [] p = PromptUnicode -> "be2b3c2e"
      [] OTHER -> "d41d8cd9"

\* one code point in UTF-8
Utf8Char(cp) ==
    IF cp < 128 THEN <<cp>>
    ELSE IF cp < 2048 THEN <<192 + (cp \div 64), 128 + (cp % 64)>>
    ELSE IF cp < 65536
    THEN <<224 + (cp \div 4096), 128 + ((cp \div 64) % 64), 128 + (cp % 64)>>
    ELSE <<240 + (cp \div 262144), 128 + ((cp \div 4096) % 64),
           128 + ((cp \div 64) % 64), 128 + (cp % 64)>>

\* the file written as ASCII with errors="replace": "?" for every other character
EncodeAscii(cps) == [i \in DOMAIN cps |-> IF cps[i] < 128 THEN cps[i] ELSE 63]

\* open(prompt_file, "w", encoding="utf-8") ... f.write(prompt): the bytes written
RECURSIVE Utf8Encode(_)
Utf8Encode(cps) ==
    IF cps = <<>> THEN <<>> ELSE Utf8Char(Head(cps)) \o Utf8Encode(Tail(cps))

\* the file read back as UTF-8 text
RECURSIVE Utf8Decode(_)
Utf8Decode(bytes) ==
    IF bytes = <<>> THEN <<>>
    ELSE LET b == Head(bytes)
             n == IF b < 128 THEN 1 ELSE IF b < 224 THEN 2 ELSE IF b < 240 THEN 3 ELSE 4
             lead == IF b < 128 THEN b
                     ELSE IF b < 224 THEN b - 192
                     ELSE IF b < 240 THEN b - 224 ELSE b - 240
             Cont(k) == bytes[k] - 128
             cp == IF n = 1 THEN lead
                   ELSE IF n = 2 THEN (lead * 64) + Cont(2)
                   ELSE IF n = 3 THEN (lead * 4096) + (Cont(2) * 64) + Cont(3)
                   ELSE (lead * 262144) + (Cont(2) * 4096) + (Cont(3) * 64) + Cont(4)
         IN  <<cp>> \o Utf8Decode(SubSeq(bytes, n + 1, Len(bytes)))

\* what image.save(output_path) writes: a PNG
ImageBytes == <<137, 80, 78, 71>>

NoPath == [parts |-> <<>>, stem |-> "", suffix |-> ""]

\* week_dir / f"image_{timestamp}_{prompt_hash}.png" (lines 208-218)
OutputPath(t, prompt) ==
    [parts |-> <<OutputDir, ToString(t.year), "week_" \o Pad2(IsoWeek(t))>>,
     stem |-> "image_" \o Strftime(t) \o "_" \o PromptHash(prompt),
     suffix |-> ".png"]

\* output_path.with_suffix(".txt"); the stem holds no dot
WithSuffix(path, sfx) == [path EXCEPT !.suffix = sfx]

OSError == [type |-> "OSError", path |-> "", remedy |-> ""]

\* week_dir.mkdir(parents=True, exist_ok=True): the directory and its missing parents
Mkdir(ds, parts) ==
    [err |-> NoError, dirs |-> ds \cup {SubSeq(parts, 1, n) : n \in 1..Len(parts)}]

\* a file written in mode "w": whatever was at the path is replaced
WriteFile(fs, path, bytes, c) ==
    {f \in fs : f.path # path} \cup {[path |-> path, bytes |-> bytes, call |-> c]}

\* outcomes of the writes under output_dir: all succeed, or opening the prompt
\* file fails (volume full, path not writable) after the image was saved
IoOutcomes == {"ok", "sidecar_fails"}

\* the output directory stays writable
IoOk == {"ok"}

(* ------------------------------- factory ------------------------------- *)

\* selectors are sequences of characters
UpperAlpha ==
    <<"A", "B", "C", "D", "E", "F", "G", "H", "I", "J", "K", "L", "M",
      "N", "O", "P", "Q", "R", "S", "T", "U", "V", "W", "X", "Y", "Z">>

LowerAlpha ==
    <<"a", "b", "c", "d", "e", "f", "g", "h", "i", "j", "k", "l", "m",
      "n", "o", "p", "q", "r", "s", "t", "u", "v", "w", "x", "y", "z">>

\* str.lower() on one ASCII character
LowerChar(ch) ==
    IF \E i \in DOMAIN UpperAlpha : UpperAlpha[i] = ch
    THEN LowerAlpha[CHOOSE i \in DOMAIN UpperAlpha : UpperAlpha[i] = ch]
    ELSE ch

\* the selector compared as it is written
LowerNot(sel) == sel

\* config.model.image_model.lower()
Lower(sel) == [i \in DOMAIN sel |-> LowerChar(sel[i])]

SelZimage == <<"z", "i", "m", "a", "g", "e">>
SelFlux == <<"f", "l", "u", "x">>

\* values of config.model.image_model
Selectors ==
    { SelZimage, SelFlux,
      <<"Z", "I", "m", "a", "g", "e">>,
      <<"F", "L", "U", "X">>,
      <<"b", "o", "g", "u", "s">>,
      <<"B", "o", "g", "u", "s">>,
      <<"z", "i", "m", "a", "g", "e", " ">>,
      <<>> }

NoFactoryError == [type |-> "", echoed |-> <<>>, accepted |-> {}, remedy |-> ""]

\* raise ImportError("Z-Image not available. Clone Z-Image repo to ref-repos/Z-Image") from e
ZImageNotAvailable ==
    [type |-> "ImportError", echoed |-> <<>>, accepted |-> {},
     remedy |-> "Clone Z-Image repo to ref-repos/Z-Image"]

\* raise ValueError(f"Unknown image model type: {model_type}. Expected 'flux' or
\* 'zimage', got '{model_type}'")
UnknownModel(model_type) ==
    [type |-> "ValueError", echoed |-> model_type, accepted |-> {SelFlux, SelZimage},
     remedy |-> ""]

\* a constructor that resolves the Z-Image source tree and the weights directory
ConstructZImageProbing(importable, e) ==
    IF importable /\ e.src /\ e.weights THEN NoFactoryError ELSE ZImageNotAvailable

\* `from .zimage_generator import ZImageGenerator; return ZImageGenerator(config)`
\* inside try / except ImportError: neither the import nor __init__ looks at the
\* source tree or the weights, so only a module that cannot be imported raises
ConstructZImage(importable, e) ==
    IF importable THEN NoFactoryError ELSE ZImageNotAvailable

NotMade ==
    [called |-> FALSE, selector |-> <<>>, mock |-> FALSE, importable |-> FALSE,
     kind |-> "", err |-> NoFactoryError]

\* a factory that dispatches on the selector before it looks at mock
GetImageGeneratorSelectorFirst(sel, mock, importable, e) ==
    LET called == [NotMade EXCEPT !.called = TRUE, !.selector = sel, !.mock = mock,
                                  !.importable = importable]
    IN  IF Lower(sel) \notin {SelZimage, SelFlux}
        THEN [called EXCEPT !.err = UnknownModel(Lower(sel))]
        ELSE IF mock THEN [called EXCEPT !.kind = "MockImageGenerator"]
        ELSE IF Lower(sel) = SelFlux THEN [called EXCEPT !.kind = "FluxImageGenerator"]
        ELSE IF importable THEN [called EXCEPT !.kind = "ZImageGenerator"]
        ELSE [called EXCEPT !.err = ZImageNotAvailable]

\* get_image_generator(config, mock) with config.model.image_model = sel
GetImageGeneratorResult(sel, mock, importable, e) ==
    LET model_type == Lower(sel)
        called == [NotMade EXCEPT !.called = TRUE, !.selector = sel, !.mock = mock,
                                  !.importable = importable]
    IN  IF mock THEN [called EXCEPT !.kind = "MockImageGenerator"]
        ELSE IF model_type = SelZimage
        THEN IF ConstructZImage(importable, e) = NoFactoryError
             THEN [called EXCEPT !.kind = "ZImageGenerator"]
             ELSE [called EXCEPT !.err = ConstructZImage(importable, e)]
        ELSE IF model_type = SelFlux
        THEN [called EXCEPT !.kind = "FluxImageGenerator"]
        ELSE [called EXCEPT !.err = UnknownModel(model_type)]

\* a probe that lists Z-Image without looking at the disk
GetAvailableModelsResultAll(e) == <<"flux", "zimage">>

\* get_available_models(): models = ["flux"], and "zimage" appended when
\* ref-repos/Z-Image/src and ref-repos/Z-Image/src/zimage both exist
GetAvailableModelsResult(e) ==
    <<"flux">> \o (IF e.src /\ e.pkg THEN <<"zimage">> ELSE <<>>)

(* ------------------------------ coroutines ----------------------------- *)

\* a coroutine that has not been started
NewCall ==
    [pc |-> "new", via |-> "", kw |-> PromptOnly(""), loaded |-> FALSE, locals |-> NoLocals,
     args |-> NoArgs, atDispatch |-> 0, thread |-> "", warnings |-> 0,
     loadedOn |-> "", sampledUnder |-> "", err |-> NoError, result |-> NoResult]

Idle == [op |-> "idle", left |-> <<>>, cont |-> 0]

InFlight(c) == calls[c].pc \in {"dispatched", "sampling", "sampled", "failed"}

\* generate without its lazy-load test
NeedsLoadNever(comps) == FALSE

\* generate loading on every call
NeedsLoadAlways(comps) == TRUE

\* `if self.components is None:` (line 122)
NeedsLoad(comps) == comps.none

\* `self.load_model()` at line 123 is an ordinary call: when generate found the
\* generator unloaded, load_model ran on the thread that runs the coroutine
LoadInline(call, found) == [call EXCEPT !.loadedOn = IF found THEN "loop" ELSE ""]

\* `from zimage import generate as zimage_generate` (line 129), with the source
\* directory on sys.path
ImportZimage(e) == IF e.pkg THEN NoError ELSE ZimageNotImportable

\* zimage_generate(...) called inline: the sampling runs on the loop thread
RunOnLoop(call) == [call EXCEPT !.pc = "sampled", !.thread = "loop"]

\* loop.run_in_executor(None, lambda: zimage_generate(...)) followed by await:
\* the work is queued for a pool thread and the coroutine is suspended
RunInExecutor(call) == [call EXCEPT !.pc = "dispatched"]

\* the identity of the next mapping load_from_local_dir returns: one that neither
\* self.components nor a dispatched call's record of it still refers to
FreshId ==
    LET live == {components.id} \cup {calls[c].atDispatch : c \in Coroutines}
    IN  CHOOSE i \in 1..(NumCoroutines + 2) :
            /\ i \notin live
            /\ \A j \in 1..(i - 1) : j \in live

\* generate from its first line to the await (lines 122-154), entered with
\* self.components = comps and loader count lc
GenerateSync(c, via, kw, draw, comps, lc) ==
    LET found == NeedsLoad(comps)
        ld == IF found THEN LoadModelResult(env, gen, comps, FreshId)
              ELSE [err |-> NoError, components |-> comps, called |-> FALSE,
                    applied |-> FALSE]
        err == IF ld.err # NoError THEN ld.err
               ELSE IF GetZimageSrcPath(env) # NoError THEN GetZimageSrcPath(env)
               ELSE ImportZimage(env)
        r == Resolve(kw, draw)
        entered == LoadInline(
                     [NewCall EXCEPT !.via = via, !.kw = kw,
                                     !.loaded = ld.called /\ ld.err = NoError],
                     found)
    IN  /\ components' = ld.components
        /\ backend' = SetAttentionBackend(backend, gen, ld)
        /\ loaderCalls' = CountLoad(lc, ld)
        /\ calls' = [calls EXCEPT ![c] =
              IF err # NoError
              THEN [entered EXCEPT !.pc = "raised", !.err = err]
              ELSE RunInExecutor(
                     [entered EXCEPT !.locals = r,
                                     !.args = SamplerArgs(kw.prompt, r, gen.device),
                                     !.warnings = NegativePromptWarnings(kw.negative_prompt),
                                     !.atDispatch = ld.components.id])]


(* ------------------------------- actions ------------------------------- *)

\* no run_benchmark call has been made
NoBench ==
    [pc |-> "idle", models |-> <<>>, m |-> 0, phase |-> "", i |-> 0,
     iterations |-> 0, warmup |-> 0, cur |-> [model |-> "", held |-> FALSE],
     abandoned |-> {}, results |-> <<>>]

\* a generator just constructed: nothing loaded, no call made, nothing written
InitRest ==
    /\ components = NoComponents
    /\ pipe = "None"
    /\ loop = Idle
    /\ calls = [c \in Coroutines |-> NewCall]
    /\ artifacts = {}
    /\ dirs = {}
    /\ clock = 1
    /\ made = NotMade
    /\ loaderCalls = 0
    /\ last = [op |-> "", err |-> NoError]
    /\ bench = NoBench

\* ZImageGenerator(config) constructed in an environment of the set E, in a
\* process where nothing has set an attention backend
InitIn(E) ==
    /\ env \in E
    /\ gen = NewGen(env, TestConfig)
    /\ backend = DefaultBackend
    /\ available = <<>>
    /\ info = NoInfo
    /\ InitRest

Init == InitIn(EnvStates)

\* coroutines are numbered in the order they are started
Startable(c) ==
    /\ loop = Idle
    /\ calls[c].pc = "new"
    /\ \A d \in Coroutines : d < c => calls[d].pc # "new"

\* await gen.generate(**kw): the coroutine runs on the loop up to its await
GenerateStart(c, kw, draw) ==
    /\ Startable(c)
    /\ GenerateSync(c, "generate", kw, draw, components, loaderCalls)
    /\ UNCHANGED <<bench, env, gen, available, info, made, pipe, loop, artifacts, dirs, clock, last>>

\* generate_image ignoring force_reinit
ForceReinitIgnored(force_reinit, comps) == FALSE

\* `if force_reinit and self.components is not None:` (line 253)
ForceReinit(force_reinit, comps) == force_reinit /\ ~comps.none

\* await gen.generate_image(prompt, output_path, force_reinit): with force_reinit on
\* a loaded generator the loop thread enters cleanup() first (lines 253-255),
\* otherwise it goes straight into generate(prompt=prompt)
GenerateImageStart(c, prompt, force_reinit, draw) ==
    /\ Startable(c)
    /\ IF ForceReinit(force_reinit, components)
       THEN /\ calls' = [calls EXCEPT ![c] =
                   [NewCall EXCEPT !.pc = "reinit", !.via = "generate_image",
                                   !.kw = PromptOnly(prompt)]]
            /\ loop' = [op |-> "cleanup", left |-> CleanupEntry(components).left, cont |-> c]
            /\ UNCHANGED <<components, backend, loaderCalls>>
       ELSE /\ GenerateSync(c, "generate_image", PromptOnly(prompt), draw,
                            components, loaderCalls)
            /\ UNCHANGED loop
    /\ UNCHANGED <<bench, env, gen, available, info, made, pipe, artifacts, dirs, clock, last>>

\* gen.load_model() called directly: it blocks the loop thread until it returns
LoadModel ==
    /\ loop = Idle
    /\ loaderCalls < MaxLoads
    /\ LET r == LoadModelResult(env, gen, components, FreshId)
       IN  /\ components' = r.components
           /\ backend' = SetAttentionBackend(backend, gen, r)
           /\ loaderCalls' = CountLoad(loaderCalls, r)
           /\ last' = [op |-> "load_model", err |-> r.err]
    /\ UNCHANGED <<bench, env, gen, available, info, made, pipe, loop, calls, artifacts, dirs, clock>>

\* gen.cleanup() called directly: the loop thread enters cleanup
CleanupBegin ==
    /\ loop = Idle
    /\ LET e == CleanupEntry(components)
       IN  IF e.err # NoError
           THEN /\ last' = [op |-> "cleanup", err |-> e.err]
                /\ UNCHANGED loop
           ELSE /\ loop' = [op |-> "cleanup", left |-> e.left, cont |-> 0]
                /\ UNCHANGED last
    /\ UNCHANGED <<bench, env, gen, backend, available, info, made, components, pipe, calls, artifacts, dirs, clock, loaderCalls>>

\* one iteration of `for key in list(self.components.keys()): del self.components[key]`
CleanupDelete ==
    /\ loop.op = "cleanup"
    /\ loop.left # <<>>
    /\ components' = DeleteKey(components, Head(loop.left))
    /\ loop' = [loop EXCEPT !.left = Tail(@)]
    /\ UNCHANGED <<bench, env, gen, backend, available, info, made, pipe, calls, artifacts, dirs, clock, loaderCalls, last>>

\* the rest of cleanup(): self.components = None, super().cleanup(), gc and cache
\* release; inside generate_image the loop thread then sets self.components = None
\* again and runs generate(prompt=prompt) up to its await
CleanupFinish(draw) ==
    /\ loop.op = "cleanup"
    /\ loop.left = <<>>
    /\ pipe' = BaseCleanup(pipe)
    /\ loop' = Idle
    /\ IF loop.cont = 0
       THEN /\ components' = CleanupComponents(components)
            /\ loaderCalls' = 0
            /\ last' = [op |-> "cleanup", err |-> NoError]
            /\ UNCHANGED <<calls, backend>>
       ELSE /\ GenerateSync(loop.cont, "generate_image", calls[loop.cont].kw, draw,
                            NoComponents, 0)
            /\ UNCHANGED last
    /\ UNCHANGED <<bench, env, gen, available, info, made, artifacts, dirs, clock>>

\* `gen.pipe = MagicMock()`, as the tests assign it on a generator just constructed
SetPipe ==
    /\ loop = Idle
    /\ pipe = "None"
    /\ loaderCalls = 0 /\ last.op = ""
    /\ \A c \in Coroutines : calls[c].pc = "new"
    /\ pipe' = "MagicMock"
    /\ UNCHANGED <<bench, env, gen, backend, available, info, made, components, loop, calls, artifacts, dirs, clock, loaderCalls, last>>

\* what the lambda finds when a pool thread runs it: self.components is read then,
\* not when the lambda was created
WorkerView(call, comps) == comps

\* a pool thread starts the lambda: it unpacks **self.components and enters
\* zimage_generate, or fails unpacking None or a mapping with keys missing
WorkerStart(c) ==
    /\ calls[c].pc = "dispatched"
    /\ LET view == WorkerView(calls[c], components)
       IN  calls' = [calls EXCEPT ![c] =
              IF view.none \/ view.keys # KeySet
              THEN [@ EXCEPT !.pc = "failed", !.thread = "worker", !.atDispatch = 0,
                             !.err = WorkerTypeError]
              ELSE [@ EXCEPT !.pc = "sampling", !.thread = "worker", !.atDispatch = 0,
                             !.sampledUnder = backend]]
    /\ UNCHANGED <<bench, env, gen, backend, available, info, made, components, pipe, loop, artifacts, dirs, clock, loaderCalls, last>>

\* zimage_generate returns on the pool thread: the future is done
WorkerFinish(c) ==
    /\ calls[c].pc = "sampling"
    /\ calls' = [calls EXCEPT ![c].pc = "sampled"]
    /\ UNCHANGED <<bench, env, gen, backend, available, info, made, components, pipe, loop, artifacts, dirs, clock, loaderCalls, last>>

\* self._save_image(image, prompt, seed) at instant t, called by coroutine c on
\* the files fs and directories ds: the directories are made, the image is saved,
\* then the prompt file is written; the seed takes no part in it
SaveImage(fs, ds, c, prompt, seed, t, io) ==
    LET path == OutputPath(t, prompt)
        mk == Mkdir(ds, path.parts)
        saved == WriteFile(fs, path, ImageBytes, c)
    IN  IF mk.err # NoError
        THEN [err |-> mk.err, artifacts |-> fs, dirs |-> ds, path |-> path]
        ELSE IF io = "sidecar_fails"
        THEN [err |-> OSError, artifacts |-> saved, dirs |-> mk.dirs, path |-> path]
        ELSE [err |-> NoError,
              artifacts |-> WriteFile(saved, WithSuffix(path, ".txt"),
                                      Utf8Encode(CodePoints(prompt)), c),
              dirs |-> mk.dirs, path |-> path]

\* the loop resumes the coroutine after the await: it re-raises the worker's
\* exception, or saves the image and returns the GenerationResult, or raises
\* what _save_image raised (lines 167-194)
Resume(c, io) ==
    /\ loop = Idle
    /\ calls[c].pc \in {"sampled", "failed"}
    /\ IF calls[c].pc = "failed"
       THEN /\ calls' = [calls EXCEPT ![c].pc = "raised"]
            /\ UNCHANGED <<artifacts, dirs>>
       ELSE \E sv \in {SaveImage(artifacts, dirs, c, calls[c].kw.prompt,
                                  calls[c].locals.seed, Instants[clock], io)} :
                /\ artifacts' = sv.artifacts
                /\ dirs' = sv.dirs
                /\ calls' = [calls EXCEPT ![c] =
                      IF sv.err # NoError
                      THEN [@ EXCEPT !.pc = "raised", !.err = sv.err]
                      ELSE [@ EXCEPT !.pc = "done",
                                     !.result = MakeResult(calls[c].kw.prompt,
                                                           calls[c].locals, sv.path,
                                                           gen)]]
    /\ UNCHANGED <<bench, env, gen, backend, available, info, made, components, pipe, loop, clock, loaderCalls, last>>

\* a second passes
Tick ==
    /\ clock < Len(Instants)
    /\ clock' = clock + 1
    /\ UNCHANGED <<bench, env, gen, backend, available, info, made, components, pipe, loop, calls, artifacts, dirs, loaderCalls, last>>

\* every interleaving of the coroutines, of direct load_model() and cleanup()
\* calls made from the loop, and of the pool threads
Next ==
    \/ \E c \in Coroutines, kw \in ScenarioKwargs, draw \in OneDraw :
           GenerateStart(c, kw, draw)
    \/ \E c \in Coroutines, draw \in OneDraw :
           GenerateImageStart(c, "A red cube", TRUE, draw)
    \/ LoadModel
    \/ CleanupBegin
    \/ CleanupDelete
    \/ \E draw \in OneDraw : CleanupFinish(draw)
    \/ SetPipe
    \/ \E c \in Coroutines : WorkerStart(c)
    \/ \E c \in Coroutines : WorkerFinish(c)
    \/ \E c \in Coroutines, io \in IoOk : Resume(c, io)

Spec == Init /\ [][Next]_vars

\* no generate call is between its start and its return
Quiet == \A c \in Coroutines : ~InFlight(c) /\ calls[c].pc # "reinit"

\* one call at a time, as loop.run_until_complete(gen.generate(...)) between
\* gen.load_model() and gen.cleanup() drives the generator
NextSeq ==
    \/ \E c \in Coroutines, kw \in SeqKwargs, draw \in Draws :
           Quiet /\ GenerateStart(c, kw, draw)
    \/ \E c \in Coroutines, f \in BOOLEAN, draw \in Draws :
           Quiet /\ GenerateImageStart(c, "A red cube", f, draw)
    \/ Quiet /\ LoadModel
    \/ Quiet /\ CleanupBegin
    \/ Quiet /\ SetPipe
    \/ CleanupDelete
    \/ \E draw \in Draws : CleanupFinish(draw)
    \/ \E c \in Coroutines : WorkerStart(c)
    \/ \E c \in Coroutines : WorkerFinish(c)
    \/ \E c \in Coroutines, io \in IoOk : Resume(c, io)

SpecSeq == Init /\ [][NextSeq]_vars

\* gen.generate(prompt, seed=seed) and nothing else
PromptSeed(p, lo) == Kwargs(p, NoneStr, NoneInt, NoneInt, NoneInt, NoneInt, SomeSeed(0, lo))

\* the calls whose artifacts are followed: one prompt under two seeds, and a
\* prompt outside ASCII
SaveKwargs == {PromptSeed("A red cube", 1), PromptSeed("A red cube", 2),
               PromptSeed(PromptUnicode, 1)}

\* a generator whose source tree, weights and attention backend are in place
InitSave == InitIn({TestEnv})

\* generate calls overlapping on one loop while the clock advances and the
\* writes under output_dir succeed or fail
NextSave ==
    \/ \E c \in Coroutines, kw \in SaveKwargs, draw \in OneDraw :
           GenerateStart(c, kw, draw)
    \/ \E c \in Coroutines : WorkerStart(c)
    \/ \E c \in Coroutines : WorkerFinish(c)
    \/ \E c \in Coroutines, io \in IoOutcomes : Resume(c, io)
    \/ Tick

SpecSave == InitSave /\ [][NextSave]_vars

\* gen = get_image_generator(config, mock): a new generator, nothing loaded
GetImageGenerator(sel, mock, importable) ==
    /\ loop = Idle
    /\ \A c \in Coroutines : calls[c].pc = "new"
    /\ made' = GetImageGeneratorResult(sel, mock, importable, env)
    /\ gen' = NewGen(env, TestConfig)
    /\ components' = NoComponents
    /\ pipe' = "None"
    /\ loaderCalls' = 0
    /\ last' = [op |-> "", err |-> NoError]
    /\ UNCHANGED <<bench, env, backend, available, info, loop, calls, artifacts, dirs, clock>>

\* another ZImageGenerator of the same process, configured with attention
\* backend b, reaches set_attention_backend(self.attention_backend) in its
\* load_model (line 91): the switch it sets is the library's, not the instance's
OtherInstanceLoad(b) ==
    /\ loop = Idle
    /\ backend' = b
    /\ UNCHANGED <<bench, env, gen, available, info, made, components, pipe, loop, calls,
                   artifacts, dirs, clock, loaderCalls, last>>

\* generate coroutines started on one loop against one generator, overlapping
\* freely, with no cleanup and no direct load_model call, in a process where
\* other generators are loaded as well
NextConc ==
    \/ \E c \in Coroutines, kw \in ScenarioKwargs, draw \in OneDraw :
           GenerateStart(c, kw, draw)
    \/ \E c \in Coroutines : WorkerStart(c)
    \/ \E c \in Coroutines : WorkerFinish(c)
    \/ \E c \in Coroutines, io \in IoOk : Resume(c, io)
    \/ \E b \in Backends : OtherInstanceLoad(b)

SpecConc == Init /\ [][NextConc]_vars

\* the object still exists: its __del__ has not run
Alive == last.op # "__del__"

\* __init__ returned, so the caller holds the generator and can call it
Whole == Alive /\ "components" \in gen.attrs

\* cleanup() as __del__ calls it on an object with attributes g: reading
\* self.components raises AttributeError when __init__ never assigned it (line
\* 265), otherwise the mapping is emptied and dropped and pipe is set to None
DelResult(g, comps, p) ==
    IF "components" \notin g.attrs
    THEN [err |-> AttributeError, components |-> comps, pipe |-> p]
    ELSE [err |-> CleanupEntry(comps).err,
          components |-> CleanupComponents(comps),
          pipe |-> BaseCleanup(p)]

\* gen = ZImageGenerator(config), after the previous generator was destroyed
Construct(config) ==
    /\ ~Alive
    /\ gen' = NewGen(env, config)
    /\ components' = NoComponents
    /\ pipe' = "None"
    /\ loaderCalls' = 0
    /\ last' = [op |-> "__init__", err |-> ConstructError(config)]
    /\ UNCHANGED <<bench, env, backend, available, info, made, loop, calls, artifacts, dirs,
                   clock>>

\* the last reference to the generator goes away and __del__ runs self.cleanup();
\* a call in flight holds the generator through its coroutine and its lambda
Del ==
    /\ Alive
    /\ loop = Idle
    /\ Quiet
    /\ LET r == DelResult(gen, components, pipe)
       IN  /\ components' = r.components
           /\ pipe' = r.pipe
           /\ last' = [op |-> "__del__", err |-> r.err]
    /\ loaderCalls' = 0
    /\ UNCHANGED <<bench, env, gen, backend, available, info, made, loop, calls, artifacts,
                   dirs, clock>>

\* generators constructed, used one call at a time and destroyed, one after
\* another; a generator whose constructor raised can only be destroyed
NextDestroy ==
    \/ \E config \in {TestConfig, NoPathConfig} : Construct(config)
    \/ Del
    \/ \E c \in Coroutines, draw \in OneDraw :
           Whole /\ Quiet /\ GenerateStart(c, KwTestGenerate, draw)
    \/ Whole /\ Quiet /\ LoadModel
    \/ Whole /\ Quiet /\ CleanupBegin
    \/ CleanupDelete
    \/ \E draw \in OneDraw : CleanupFinish(draw)
    \/ \E c \in Coroutines : WorkerStart(c)
    \/ \E c \in Coroutines : WorkerFinish(c)
    \/ \E c \in Coroutines, io \in IoOk : Resume(c, io)

SpecDestroy == Init /\ [][NextDestroy]_vars

\* an accelerator appears or goes away, or config.system.cpu_only is assigned,
\* while the generator exists
EnvChange(h) ==
    /\ env' = WithHardware(env, h)
    /\ UNCHANGED <<bench, gen, backend, available, info, made, components, pipe, loop, calls,
                   artifacts, dirs, clock, loaderCalls, last>>

\* info = gen.get_model_info(), called from the loop thread
GetModelInfo ==
    /\ loop = Idle
    /\ info' = [info EXCEPT !.held = "fresh", !.value = GetModelInfoResult(gen, info)]
    /\ UNCHANGED <<bench, env, gen, backend, available, made, components, pipe, loop, calls,
                   artifacts, dirs, clock, loaderCalls, last>>

\* the caller writes into the mapping it holds
MutateInfo ==
    /\ info.held = "fresh"
    /\ info' = [held |-> "mutated", tampered |-> TRUE, value |-> Tamper(info.value)]
    /\ UNCHANGED <<bench, env, gen, backend, available, made, components, pipe, loop, calls,
                   artifacts, dirs, clock, loaderCalls, last>>

\* one generator driven one call at a time through load_model, generate,
\* generate_image, cleanup and get_model_info while the accelerators and the
\* cpu_only setting change under it
NextDevice ==
    \/ \E h \in Hardware : EnvChange(h)
    \/ \E c \in Coroutines, draw \in OneDraw :
           Quiet /\ GenerateStart(c, KwTestGenerate, draw)
    \/ \E c \in Coroutines, draw \in OneDraw :
           Quiet /\ GenerateImageStart(c, "A red cube", TRUE, draw)
    \/ Quiet /\ LoadModel
    \/ Quiet /\ CleanupBegin
    \/ CleanupDelete
    \/ \E draw \in OneDraw : CleanupFinish(draw)
    \/ \E c \in Coroutines : WorkerStart(c)
    \/ \E c \in Coroutines : WorkerFinish(c)
    \/ \E c \in Coroutines, io \in IoOk : Resume(c, io)
    \/ GetModelInfo

SpecDevice == InitIn(DeviceEnvs) /\ [][NextDevice]_vars

\* one generator in the environment of the tests, its description asked for and
\* written into between loads, calls and cleanups
NextInfo ==
    \/ \E c \in Coroutines, draw \in OneDraw :
           Quiet /\ GenerateStart(c, KwTestGenerate, draw)
    \/ Quiet /\ LoadModel
    \/ Quiet /\ CleanupBegin
    \/ CleanupDelete
    \/ \E draw \in OneDraw : CleanupFinish(draw)
    \/ \E c \in Coroutines : WorkerStart(c)
    \/ \E c \in Coroutines : WorkerFinish(c)
    \/ \E c \in Coroutines, io \in IoOk : Resume(c, io)
    \/ GetModelInfo
    \/ MutateInfo

SpecInfo == InitIn({TestEnv}) /\ [][NextInfo]_vars

\* models = get_available_models(): the caller gets a new list
GetAvailableModels ==
    /\ available' = GetAvailableModelsResult(env)
    /\ UNCHANGED <<bench, env, gen, backend, info, made, components, pipe, loop, calls,
                   artifacts, dirs, clock, loaderCalls, last>>

\* the factory called with every selector, load_model() on a Z-Image generator
\* it returned, and the capability probe
NextFactory ==
    \/ \E sel \in Selectors, mock \in BOOLEAN, importable \in BOOLEAN :
           GetImageGenerator(sel, mock, importable)
    \/ made.kind = "ZImageGenerator" /\ LoadModel
    \/ GetAvailableModels

SpecFactory == Init /\ [][NextFactory]_vars


(* ------------------------------- claims -------------------------------- *)

EnvOk == env.src /\ env.pkg /\ env.weights /\ env.attn

Dispatched == {"dispatched", "sampling", "sampled", "failed", "done"}

\* C1: lazy load.  A generate call that finds self.components None runs load_model
\* to completion before it dispatches the sampling call: the step that dispatches
\* it leaves a complete freshly loaded mapping in self.components and counts one
\* loader invocation, and no call is ever dispatched with components still None.
C1_LazyLoad ==
    /\ [](\A c \in Coroutines : calls[c].pc = "dispatched" => calls[c].atDispatch # 0)
    /\ [][\A c \in Coroutines :
            (/\ calls[c].pc \in {"new", "reinit"}
             /\ calls'[c].pc \in Dispatched
             /\ components.none \/ calls[c].pc = "reinit")
            => /\ ~components'.none
               /\ components'.keys = KeySet
               /\ calls'[c].loaded
               /\ calls'[c].atDispatch = components'.id
               /\ loaderCalls' = (IF calls[c].pc = "reinit" THEN 0 ELSE loaderCalls) + 1]_vars

\* a first generate call on a generator nobody loaded is dispatched after loading
C1_Witness ==
    /\ calls[1].pc = "dispatched"
    /\ calls[1].via = "generate"
    /\ calls[1].loaded
    /\ last.op = ""
    /\ loaderCalls = 1

\* C2: idempotent load.  load_from_local_dir is invoked at most once between two
\* consecutive cleanups.
C2_IdempotentLoad == loaderCalls <= 1

\* C3: cleanup ends unloaded and is safe when unloaded.  A cleanup() call can be
\* made in every lifecycle state, raises nothing, ends with components None and
\* pipe None, and on a generator already unloaded it changes neither.
C3_CleanupEndsUnloaded ==
    /\ [](last.op = "cleanup" => last.err = NoError)
    /\ [](loop = Idle => ENABLED CleanupBegin)
    /\ [][(loop = Idle /\ loop'.op = "cleanup" /\ loop'.cont = 0 /\ components.none)
            => loop'.left = <<>> /\ components' = components /\ pipe' = pipe]_vars
    /\ [][(loop.op = "cleanup" /\ loop.cont = 0 /\ loop' = Idle)
            => /\ components'.none
               /\ pipe' = "None"
               /\ last' = [op |-> "cleanup", err |-> NoError]
               /\ (components.none /\ pipe = "None"
                     => components' = components /\ pipe' = pipe)]_vars

\* cleanup() has completed after a call had loaded and used the generator
C3_Witness ==
    /\ calls[1].pc = "done"
    /\ calls[1].loaded
    /\ last.op = "cleanup"
    /\ components.none
    /\ pipe = "None"
    /\ loop = Idle


\* the pool threads run the work queued for them, and the loop thread goes on
\* with the cleanup it is inside of and resumes a coroutine whose future is done
FairSeq ==
    /\ SpecSeq
    /\ \A c \in Coroutines :
          WF_vars(WorkerStart(c)) /\ WF_vars(WorkerFinish(c))
             /\ WF_vars(\E io \in IoOk : Resume(c, io))
    /\ WF_vars(CleanupDelete)
    /\ WF_vars(\E draw \in Draws : CleanupFinish(draw))

\* C4: reload after cleanup.  With the source tree and the weights present, a
\* generate call started on an unloaded generator (after a cleanup as well as
\* before any load) runs load_model again and is dispatched with a complete
\* mapping; calls made one at a time never raise, and every dispatched call
\* completes with a GenerationResult.
C4_ReloadAfterCleanup ==
    /\ [](EnvOk => \A c \in Coroutines : calls[c].pc \notin {"failed", "raised"})
    /\ [](\A c \in Coroutines : calls[c].pc = "done" => calls[c].result.built)
    /\ [][\A c \in Coroutines :
            (/\ EnvOk
             /\ components.none
             /\ calls[c].pc = "new"
             /\ calls'[c].pc # "new")
            => /\ calls'[c].pc = "dispatched"
               /\ calls'[c].loaded
               /\ ~components'.none
               /\ components'.keys = KeySet]_vars
    /\ \A c \in Coroutines :
          (EnvOk /\ calls[c].pc \in {"dispatched", "reinit"}) ~> (calls[c].pc = "done")

\* a call loaded and completed, cleanup() ran, and the next generate call loaded
\* again and completed
C4_Witness ==
    /\ calls[1].pc = "done"
    /\ calls[1].loaded
    /\ last.op = "cleanup"
    /\ calls[2].pc = "done"
    /\ calls[2].via = "generate"
    /\ calls[2].loaded
    /\ calls[2].result.built

\* C5: non-blocking sampling.  The sampling of every call runs on a pool thread;
\* from dispatch until the worker has finished the coroutine stays suspended and
\* does not hold the loop, which is free for other callers; the image is saved and
\* the result built only by the step that resumes the coroutine once the worker
\* has completed.
C5_SamplingOffLoop ==
    /\ [](\A c \in Coroutines :
            calls[c].pc \in {"sampling", "sampled", "failed", "done"}
               => calls[c].thread = "worker")
    /\ [](\A c \in Coroutines :
            (calls[c].result.built \/ \E a \in artifacts : a.call = c)
               => calls[c].pc = "done")
    /\ [](\A c \in Coroutines : InFlight(c) => loop.cont # c)
    /\ []((loop = Idle /\ \E c \in Coroutines : calls[c].pc \in {"dispatched", "sampling"})
            => ENABLED CleanupBegin)
    /\ [][\A c \in Coroutines :
            calls[c].pc \in {"dispatched", "sampling"}
               => calls'[c].pc \in {"dispatched", "sampling", "sampled", "failed"}]_vars
    /\ [][\A c \in Coroutines :
            (calls[c].pc # "done" /\ calls'[c].pc = "done")
               => calls[c].pc = "sampled" /\ loop = Idle]_vars

\* a second coroutine has run on the loop while the first one's sampling is
\* running on its pool thread
C5_Witness ==
    /\ calls[1].pc = "sampling"
    /\ calls[1].thread = "worker"
    /\ calls[2].pc = "dispatched"

\* C6: in-flight generation runs to completion.  While the sampling work of a call
\* is queued, what the pool thread will unpack is a complete loaded mapping,
\* never None and never a mapping with keys deleted, whatever cleanup or forced
\* reinitialisation the loop runs meanwhile; so no worker fails and no call
\* raises the worker's error.
C6_InFlightRunsToCompletion ==
    \A c \in Coroutines :
        /\ calls[c].pc = "dispatched" =>
              /\ ~WorkerView(calls[c], components).none
              /\ WorkerView(calls[c], components).keys = KeySet
        /\ calls[c].pc # "failed"
        /\ calls[c].err # WorkerTypeError

\* the error load_model raises for what is missing
ExpectedLoadError == IF ~env.src THEN SourceNotFound ELSE ModelNotFound

Sampled(c) == calls[c].pc \in {"dispatched", "sampling", "sampled", "done"}

\* C8: seed resolution.  result.seed is the caller's seed whenever one was given,
\* 0 included, and otherwise the value drawn, which lies in [0, 2^32); the random
\* generator handed to the sampler is seeded with that same value.
C8_SeedResolution ==
    \A c \in Coroutines :
        /\ Sampled(c) =>
              /\ calls[c].kw.seed.set =>
                    calls[c].args.generator.initial_seed = calls[c].kw.seed.val
              /\ ~calls[c].kw.seed.set =>
                    InSeedRange(calls[c].args.generator.initial_seed)
              /\ calls[c].args.generator.offset = 0
        /\ calls[c].pc = "done" =>
              calls[c].result.seed = calls[c].args.generator.initial_seed

\* one call completed with seed=0 and one with the seed omitted, resolved to the
\* top of the range
C8_Witness ==
    /\ calls[1].pc = "done"
    /\ calls[1].kw = KwSeedZero
    /\ calls[1].result.seed = SeedOf(0, 0)
    /\ calls[2].pc = "done"
    /\ ~calls[2].kw.seed.set
    /\ calls[2].result.seed = SeedOf(WordBase - 1, WordBase - 1)

\* C9: determinism.  Two calls given the same seed and the same other parameters
\* hand the sampler the same prompt, height, width, step count, guidance scale
\* and generator state, whatever happened between them.
C9_Determinism ==
    \A c, d \in Coroutines :
        (/\ Sampled(c) /\ Sampled(d)
         /\ calls[c].kw.seed.set
         /\ calls[c].kw = calls[d].kw)
        => calls[c].args = calls[d].args

\* two completed calls with the same seeded parameters, with a cleanup and a
\* reload between them
C9_Witness ==
    /\ calls[1].pc = "done" /\ calls[2].pc = "done"
    /\ calls[1].kw = KwTestGenerate /\ calls[2].kw = KwTestGenerate
    /\ calls[1].loaded /\ calls[2].loaded
    /\ last.op = "cleanup"

\* C10: guidance scale pinned to zero.  Whatever guidance_scale the caller gives
\* or omits, the sampler receives 0.0 and the result's metadata reports 0.0.
C10_GuidancePinned ==
    \A c \in Coroutines :
        /\ Sampled(c) => calls[c].args.guidance_scale = 0
        /\ calls[c].pc = "done" => calls[c].result.metadata.guidance_scale = 0

\* a call given guidance_scale=3.5 and one given none have completed with 0.0
C10_Witness ==
    /\ calls[1].pc = "done"
    /\ calls[1].kw.guidance_scale = SomeInt(35)
    /\ calls[1].result.metadata.guidance_scale = 0
    /\ calls[2].pc = "done"
    /\ ~calls[2].kw.guidance_scale.set

\* C11 as stated: every call given a negative_prompt, whatever the string, emits
\* exactly one warning-level event.
C11_WarnsForAnyString ==
    \A c \in Coroutines :
        (Sampled(c) /\ calls[c].kw.negative_prompt.set) => calls[c].warnings = 1

\* C11, amended: a call given a non-empty negative_prompt emits exactly one
\* warning-level event, a call given the empty string or none emits no warning;
\* the negative prompt is not among the sampler's arguments, and with the model
\* loadable a call given one is dispatched and raises nothing.
C11_NegativePromptIgnored ==
    \A c \in Coroutines :
        /\ Sampled(c) =>
              /\ calls[c].warnings =
                    (IF calls[c].kw.negative_prompt.set /\ calls[c].kw.negative_prompt.val # ""
                     THEN 1 ELSE 0)
              /\ "negative_prompt" \notin DOMAIN calls[c].args
        /\ (EnvOk /\ calls[c].kw.negative_prompt.set) =>
              /\ calls[c].pc \notin {"raised", "failed"}
              /\ calls[c].err = NoError

\* a call given negative_prompt="blurry" completed with one warning and a call
\* given negative_prompt="" completed with none
C11_Witness ==
    /\ calls[1].pc = "done"
    /\ calls[1].kw.negative_prompt = SomeStr("blurry")
    /\ calls[1].warnings = 1
    /\ calls[2].pc = "done"
    /\ calls[2].kw.negative_prompt = SomeStr("")
    /\ calls[2].warnings = 0

\* C12: guidance override ignored with a warning.  A call given a guidance_scale
\* emits a warning-level event for it, beyond the one a negative prompt causes.
C12_GuidanceOverrideWarned ==
    \A c \in Coroutines :
        (Sampled(c) /\ calls[c].kw.guidance_scale.set)
        => calls[c].warnings >= NegativePromptWarnings(calls[c].kw.negative_prompt) + 1

\* C13 as stated: the step count is the caller's for every integer supplied.
C13_StepsForEveryInteger ==
    \A c \in Coroutines :
        (Sampled(c) /\ calls[c].kw.num_inference_steps.set)
        => calls[c].args.num_inference_steps = calls[c].kw.num_inference_steps.val

\* C13, amended: the step count passed to the sampler and reported in
\* result.steps is the caller's num_inference_steps when the caller supplied a
\* non-zero one, and 8 when the caller omitted it or supplied 0.
C13_StepResolution ==
    \A c \in Coroutines :
        /\ Sampled(c) =>
              calls[c].args.num_inference_steps =
                 (IF calls[c].kw.num_inference_steps.set
                     /\ calls[c].kw.num_inference_steps.val # 0
                  THEN calls[c].kw.num_inference_steps.val
                  ELSE 8)
        /\ calls[c].pc = "done" =>
              /\ calls[c].result.steps = calls[c].args.num_inference_steps
              /\ calls[c].result.metadata.steps = calls[c].args.num_inference_steps

\* a call given num_inference_steps=4 completed with 4 steps and a call given
\* num_inference_steps=0 completed with 8
C13_Witness ==
    /\ calls[1].pc = "done"
    /\ calls[1].kw.num_inference_steps = SomeInt(4)
    /\ calls[1].result.steps = 4
    /\ calls[2].pc = "done"
    /\ calls[2].kw.num_inference_steps = SomeInt(0)
    /\ calls[2].result.steps = 8

\* C14 as stated: metadata height and width are the caller's whenever supplied.
C14_SizeAsSupplied ==
    \A c \in Coroutines :
        calls[c].pc = "done" =>
            /\ calls[c].kw.height.set =>
                  calls[c].result.metadata.height = calls[c].kw.height.val
            /\ calls[c].kw.width.set =>
                  calls[c].result.metadata.width = calls[c].kw.width.val

\* C14, amended: every GenerationResult returned has no unset field: image_path
\* is the path of the saved image, prompt is the prompt passed, model is
\* "zimage", seed is the seed handed to the sampler, steps is not zero, and
\* metadata height and width are the caller's values when supplied and not zero,
\* and the configured image.height / image.width when omitted or supplied as 0.
C14_ResultResolved ==
    \A c \in Coroutines :
        calls[c].pc = "done" =>
            LET res == calls[c].result
                kw == calls[c].kw
            IN  /\ res.built
                /\ res.image_path.parts # <<>>
                /\ res.image_path.stem # ""
                /\ res.image_path.suffix = ".png"
                /\ res.prompt = kw.prompt
                /\ res.model = "zimage"
                /\ res.seed = calls[c].args.generator.initial_seed
                /\ res.steps # 0
                /\ res.metadata.height =
                      (IF kw.height.set /\ kw.height.val # 0 THEN kw.height.val
                       ELSE ConfigHeight)
                /\ res.metadata.width =
                      (IF kw.width.set /\ kw.width.val # 0 THEN kw.width.val
                       ELSE ConfigWidth)
                /\ res.metadata.height # 0 /\ res.metadata.width # 0

\* a call given height=1024, width=1024 and a call given height=0, width=0 have
\* returned: 1024 x 1024 for the one, the configured size for the other
C14_Witness ==
    /\ calls[1].pc = "done"
    /\ calls[1].kw = KwTestGenerate
    /\ calls[1].result.metadata.height = 1024
    /\ calls[2].pc = "done"
    /\ calls[2].kw = KwFalsy
    /\ calls[2].result.metadata.height = ConfigHeight
    /\ calls[2].result.metadata.width = ConfigWidth

\* the step by which generate returns its result to the caller of coroutine c
Returns(c) == calls[c].pc # "done" /\ calls'[c].pc = "done"

\* C15: prompt sidecar round trip.  When generate returns, the file at
\* result.image_path exists, the file with the same directory and stem and the
\* extension .txt exists, and its bytes read back as UTF-8 are the code points
\* of the prompt passed to that call, for ASCII and non-ASCII prompts alike.
C15_SidecarRoundTrip ==
    [][\A c \in Coroutines :
         Returns(c) =>
            LET path == calls'[c].result.image_path
            IN  /\ \E img \in artifacts' : img.path = path /\ img.call = c
                /\ \E txt \in artifacts' :
                      /\ txt.path.parts = path.parts
                      /\ txt.path.stem = path.stem
                      /\ txt.path.suffix = ".txt"
                      /\ Utf8Decode(txt.bytes) = CodePoints(calls[c].kw.prompt)
                      /\ Len(CodePoints(calls[c].kw.prompt)) > 0]_vars

\* a call with the non-ASCII prompt has returned and its sidecar holds the 14
\* bytes of the prompt's 8 characters
C15_Witness ==
    /\ calls[1].pc = "done"
    /\ calls[1].kw.prompt = PromptUnicode
    /\ \E txt \in artifacts :
          /\ txt.path.suffix = ".txt"
          /\ txt.path.stem = calls[1].result.image_path.stem
          /\ txt.call = 1
          /\ Len(txt.bytes) = 14

\* C16: the sidecar is mandatory on every exit path.  Once a generate call has
\* ended, by returning or by raising, every image file it wrote has its sibling
\* prompt file.
C16_NoImageWithoutSidecar ==
    \A c \in Coroutines :
        calls[c].pc \in {"done", "raised"} =>
            \A img \in artifacts :
                (img.call = c /\ img.path.suffix = ".png")
                => \E txt \in artifacts :
                      /\ txt.path.parts = img.path.parts
                      /\ txt.path.stem = img.path.stem
                      /\ txt.path.suffix = ".txt"

\* C17: artifact names are collision-resistant.  Two distinct completed
\* generations never return the same image_path, and the image and the sidecar
\* a completed generation wrote are not overwritten by another call; stated for
\* the case the claim names, two generations that differ in their seed.
C17_NoCollision ==
    \A c \in Coroutines : \A d \in Coroutines \ {c} :
        (/\ calls[c].pc = "done" /\ calls[d].pc = "done"
         /\ calls[c].result.seed # calls[d].result.seed)
        => /\ calls[d].result.image_path # calls[c].result.image_path
           /\ \E img \in artifacts :
                 img.path = calls[c].result.image_path /\ img.call = c
           /\ \E txt \in artifacts :
                 /\ txt.path = [calls[c].result.image_path EXCEPT !.suffix = ".txt"]
                 /\ txt.call = c

\* the decimal digits, and a number below 100 written with exactly two of them
Digit == <<"0", "1", "2", "3", "4", "5", "6", "7", "8", "9">>
TwoDigits(n) == Digit[(n \div 10) + 1] \o Digit[(n % 10) + 1]

\* C18: saved-artifact layout.  A generation that completes at local time t
\* returns <output_root>/<year of t>/week_<NN>/image_<YYYYMMDD_HHMMSS>_<hash>.png
\* with NN the ISO week number of t in two digits and the hash 8 characters
\* that depend on the prompt alone; the directories on the way exist afterwards,
\* and a directory that already exists makes no save fail.
C18_ArtifactLayout ==
    /\ [][\A c \in Coroutines :
            Returns(c) =>
               LET t == Instants[clock]
                   path == calls'[c].result.image_path
               IN  /\ path.parts =
                         <<OutputDir,
                           TwoDigits(t.year \div 100) \o TwoDigits(t.year % 100),
                           "week_" \o TwoDigits(IsoWeek(t))>>
                   /\ path.stem =
                         "image_" \o TwoDigits(t.year \div 100) \o TwoDigits(t.year % 100)
                            \o TwoDigits(t.month) \o TwoDigits(t.day) \o "_"
                            \o TwoDigits(t.hour) \o TwoDigits(t.minute)
                            \o TwoDigits(t.second) \o "_" \o PromptHash(calls[c].kw.prompt)
                   /\ Len(PromptHash(calls[c].kw.prompt)) = 8
                   /\ Len(path.stem) = 30
                   /\ path.suffix = ".png"
                   /\ (t.year = 2025 /\ IsoWeek(t) = 40)
                         => path.parts[2] = "2025" /\ path.parts[3] = "week_40"
                   /\ \A n \in 1..Len(path.parts) : SubSeq(path.parts, 1, n) \in dirs']_vars
    /\ [][\A c \in Coroutines :
            (calls[c].pc = "sampled" /\ calls'[c].pc = "raised")
            => calls'[c].err = OSError]_vars
    /\ [](\A c, d \in Coroutines :
            (calls[c].pc = "done" /\ calls[d].pc = "done"
             /\ calls[c].kw.prompt = calls[d].kw.prompt)
            => \E h \in {PromptHash(kw.prompt) : kw \in SaveKwargs} :
                  /\ calls[c].result.image_path.stem \in
                        {"image_" \o Strftime(Instants[i]) \o "_" \o h : i \in DOMAIN Instants}
                  /\ calls[d].result.image_path.stem \in
                        {"image_" \o Strftime(Instants[i]) \o "_" \o h : i \in DOMAIN Instants})

\* one generation completed in ISO week 40 of 2025 and a later one, into a
\* directory tree that already held the first, on 5 January 2026, week 2
C18_Witness ==
    /\ calls[1].pc = "done"
    /\ calls[1].result.image_path =
          [parts |-> <<"/tmp/test_output", "2025", "week_40">>,
           stem |-> "image_20251001_120000_6b4e30f4", suffix |-> ".png"]
    /\ calls[2].pc = "done"
    /\ calls[2].result.image_path =
          [parts |-> <<"/tmp/test_output", "2026", "week_02">>,
           stem |-> "image_20260105_090503_6b4e30f4", suffix |-> ".png"]
    /\ <<"/tmp/test_output", "2025", "week_40">> \in dirs

\* sel and target, a lower-case word, differ at most in the case of letters
FoldsTo(sel, target) ==
    /\ Len(sel) = Len(target)
    /\ \A i \in DOMAIN sel :
          \/ sel[i] = target[i]
          \/ \E k \in DOMAIN UpperAlpha : UpperAlpha[k] = sel[i] /\ LowerAlpha[k] = target[i]

\* the factory was called with mock false and a selector that reads "zimage"
ZImageSelected == made.called /\ ~made.mock /\ FoldsTo(made.selector, SelZimage)

C21_MockOverridesSelector ==
    (made.called /\ made.mock) =>
        /\ made.kind = "MockImageGenerator"
        /\ made.err = NoFactoryError
        /\ \A sel \in Selectors, importable \in BOOLEAN :
              LET other == GetImageGeneratorResult(sel, TRUE, importable, env)
              IN  other.kind = made.kind /\ other.err = made.err

\* the factory was called in mock mode with a selector it otherwise rejects
C21_Witness ==
    /\ made.called /\ made.mock
    /\ ~FoldsTo(made.selector, SelZimage) /\ ~FoldsTo(made.selector, SelFlux)
    /\ GetImageGeneratorResult(made.selector, FALSE, made.importable, env).err.type
          = "ValueError"
    /\ made.kind = "MockImageGenerator"

\* the elements of a list
Elements(seq) == {seq[i] : i \in DOMAIN seq}

PolicyDevice(e) ==
    CASE e.cpu_only -> "cpu"
      [] ~e.cpu_only /\ e.cuda -> "cuda"
      [] ~e.cpu_only /\ ~e.cuda /\ e.mps -> "mps"
      [] OTHER -> "cpu"

\* C23: device selection policy.  For every combination of cpu_only, CUDA
\* available and MPS available, the device of a generator just constructed is cpu
\* if cpu_only is set, otherwise cuda if CUDA is available, otherwise mps if MPS is
\* available, otherwise cpu; the device is always one of cuda, mps and cpu.
C23_DevicePolicy ==
    /\ gen.device = PolicyDevice(env)
    /\ \A e \in DeviceEnvs : NewGen(e, TestConfig).device = PolicyDevice(e)
    /\ [](gen.device \in {"cuda", "mps", "cpu"})

\* a generator constructed where CUDA and MPS were both available and cpu_only
\* was off, and one constructed where MPS was the only accelerator
C23_Witness ==
    /\ gen.device = "mps"
    /\ ~env.cpu_only /\ ~env.cuda /\ env.mps
    /\ NewGen(WithHardware(env, [cpu_only |-> FALSE, cuda |-> TRUE, mps |-> TRUE]),
              TestConfig).device = "cuda"
    /\ components = NoComponents /\ last.op = "" /\ info = NoInfo
    /\ \A c \in Coroutines : calls[c].pc = "new"

\* C24: the device is fixed after construction.  No step of load_model, generate,
\* generate_image, cleanup or get_model_info changes the generator's device, also
\* when the accelerators or the cpu_only setting change after construction; the
\* device the components are loaded onto, the device of the seeded random
\* generator and the device in the metadata and in the model description are the
\* one computed at construction.
C24_DeviceFixed ==
    /\ [][gen'.device = gen.device]_vars
    /\ [](~components.none => components.device = gen.device)
    /\ [](\A c \in Coroutines :
            /\ calls[c].pc \in Dispatched => calls[c].args.generator.device = gen.device
            /\ calls[c].pc = "done" => calls[c].result.metadata.device = gen.device)
    /\ [](info.held = "fresh" => info.value.device = gen.device)

\* after the accelerator the generator was constructed on went away, a call
\* loaded the model, sampled and returned, and the description was asked for
C24_Witness ==
    /\ gen.device = "cuda"
    /\ GetDevice(env) = "cpu"
    /\ calls[1].pc = "done" /\ calls[1].loaded
    /\ components.device = "cuda"
    /\ calls[1].args.generator.device = "cuda"
    /\ calls[1].result.metadata.device = "cuda"
    /\ info.held = "fresh"

\* C25: get_model_info has no side effects.  A get_model_info call changes
\* nothing of the generator (components, pipe, device and the other attributes,
\* loader count) and starts no load; the mapping it returns names the generator's
\* device, the model name and the configured attention backend and compile flag,
\* the same before a load, after a load and after a cleanup, also after the caller
\* wrote into a mapping returned earlier.
C25_ModelInfoPure ==
    /\ [](info.held = "fresh" =>
            /\ info.value.device = gen.device
            /\ info.value.model_type = "ZImageGenerator"
            /\ info.value.model_name = "Z-Image-Turbo"
            /\ info.value.model_path = TestConfig.zimage_model_path.val
            /\ info.value.attention_backend = TestConfig.zimage_attention
            /\ info.value.compiled = TestConfig.zimage_compile
            /\ info.value.inference_steps = DefaultSteps
            /\ Len(info.value.features) = 4
            /\ info.value = GetModelInfoResult(gen, NoInfo))
    /\ [][info'.held = "fresh" =>
            \/ info.held # "fresh"
            \/ info'.value = info.value]_vars
    /\ [][info' # info =>
            UNCHANGED <<bench, env, gen, backend, available, made, components, pipe, loop,
                        calls, artifacts, dirs, clock, loaderCalls, last>>]_vars

\* the description was returned again after the caller had written into an
\* earlier one and after the generator was loaded, used and cleaned up
C25_Witness ==
    /\ info.held = "fresh"
    /\ info.tampered
    /\ calls[1].pc = "done" /\ calls[1].loaded
    /\ last.op = "cleanup"
    /\ components.none

\* C26: automatic cleanup on destruction.  When a generator is destroyed, in
\* whatever state it is (never loaded, loaded, cleaned up already, or left half
\* constructed by a constructor that raised), the cleanup __del__ runs raises
\* nothing and leaves components None and pipe None.
C26_DelCleansUp ==
    last.op = "__del__" =>
        /\ last.err = NoError
        /\ components.none
        /\ pipe = "None"

\* C27: the event loop stays responsive during a lazy load.  No heavy step of
\* generate runs on the event-loop thread: neither the load_model a call on an
\* unloaded generator makes nor the sampling.
C27_NoHeavyStepOnLoop ==
    \A c \in Coroutines :
        /\ calls[c].loaded => calls[c].loadedOn # "loop"
        /\ calls[c].thread # "loop"

\* the calls that ran load_model
RanLoadModel == {c \in Coroutines : calls[c].loadedOn # ""}

\* C28: concurrent generate calls load once.  Whatever the interleaving of the
\* generate coroutines started on one loop against one generator that starts
\* unloaded, with no cleanup in between, load_from_local_dir is invoked at most
\* once and there is one mapping of components only; where the source, the
\* weights and the attention backend are in place, load_model runs exactly once,
\* in the first call, no call raises, and every call is dispatched with and
\* samples with that one mapping.
C28_ConcurrentCallsLoadOnce ==
    /\ loaderCalls <= 1
    /\ Cardinality({c \in Coroutines : calls[c].loaded}) <= 1
    /\ ~components.none => components.id = 1 /\ components.keys = KeySet
    /\ \A c \in Coroutines :
          calls[c].pc = "dispatched" => calls[c].atDispatch = components.id
    /\ EnvOk =>
          /\ calls[1].pc # "new" => RanLoadModel = {1} /\ loaderCalls = 1
          /\ \A c \in Coroutines : calls[c].pc \notin {"failed", "raised"}

\* two calls sample at the same time on the components the first one loaded
C28_Witness ==
    /\ EnvOk
    /\ \A c \in Coroutines : calls[c].pc = "sampling"
    /\ calls[1].loaded
    /\ \A c \in Coroutines \ {1} : ~calls[c].loaded /\ calls[c].loadedOn = ""
    /\ loaderCalls = 1

\* C29: loaded implies fully configured.  Whenever components is not None, so
\* that generate skips load_model, the configured attention backend is the one
\* the load put in effect; and a load_model that raised, at whatever step, has
\* left components None.
C29_LoadedImpliesConfigured ==
    /\ ~components.none => backend = gen.attention_backend
    /\ (last.op = "load_model" /\ last.err # NoError) => components.none
    /\ \A c \in Coroutines :
          (calls[c].pc = "raised" /\ calls[c].err = AttentionError) => components.none

\* C30: the reported attention backend is the one in effect.  For every generate
\* call that returned, the attention_backend of its metadata is the backend that
\* was in effect in the process when its sampling ran, also with other generator
\* instances of the process configured with other backends.
C30_ReportedBackendInEffect ==
    \A c \in Coroutines :
        calls[c].pc = "done" =>
            calls[c].result.metadata.attention_backend = calls[c].sampledUnder

\* C31: forced reinitialisation.  generate_image with force_reinit = True on a
\* loaded generator enters cleanup before anything else and, once cleanup has set
\* components to None, runs load_model once, into a new mapping, before the
\* sampling call is dispatched; with force_reinit = False on a loaded generator
\* load_model does not run and the mapping stays; on an unloaded generator the
\* call runs load_model once whatever the flag says.
C31_ForcedReinit ==
    /\ [][\A c \in Coroutines, f \in BOOLEAN, draw \in Draws :
            GenerateImageStart(c, "A red cube", f, draw) =>
               IF ~components.none /\ f
               THEN /\ calls'[c].pc = "reinit"
                    /\ loop'.op = "cleanup" /\ loop'.cont = c
                    /\ loop'.left = ComponentKeys
                    /\ loaderCalls' = loaderCalls
               ELSE IF ~components.none
               THEN /\ calls'[c].loadedOn = ""
                    /\ ~calls'[c].loaded
                    /\ components' = components
                    /\ loaderCalls' = loaderCalls
               ELSE /\ calls'[c].loadedOn = "loop"
                    /\ calls'[c].pc \in {"dispatched", "raised"}
                    /\ loaderCalls' <= loaderCalls + 1
                    /\ calls'[c].pc = "dispatched"
                          => /\ calls'[c].loaded
                             /\ loaderCalls' = loaderCalls + 1
                             /\ components' = Loaded(calls'[c].atDispatch, gen.device)]_vars
    /\ [][\A c \in Coroutines :
            (calls[c].pc = "reinit" /\ calls'[c].pc # "reinit")
            => /\ loop.op = "cleanup" /\ loop.left = <<>> /\ components.keys = {}
               /\ calls'[c].loadedOn = "loop"
               /\ calls'[c].pc \in {"dispatched", "raised"}
               /\ loaderCalls' <= 1
               /\ calls'[c].pc = "dispatched"
                     => /\ calls'[c].loaded
                        /\ loaderCalls' = 1
                        /\ components'.id # components.id
                        /\ components' = Loaded(calls'[c].atDispatch, gen.device)]_vars

\* a forced reinitialisation of a generator that the first call loaded, and that
\* no direct cleanup() unloaded, has cleaned up, reloaded and dispatched its
\* sampling call
C31_Witness ==
    \E c \in Coroutines :
        /\ c > 1
        /\ last.op = ""
        /\ calls[c].via = "generate_image"
        /\ calls[c].pc = "dispatched"
        /\ calls[c].loaded
        /\ loaderCalls = 1
        /\ calls[1].pc = "done" /\ calls[1].loaded

(* ------------------------- scripts/benchmark_models -------------------- *)

\* the --models lists run_benchmark is called with
BenchModels == {<<"zimage">>, <<"flux", "zimage">>, <<"zimage", "flux">>, <<"sdxl", "zimage">>}

\* run_benchmark(models, iterations, warmup, prompt): config and results are set
\* up and the loop over the models begins (lines 138-150)
RunBenchmark(models, iterations, warmup) ==
    /\ bench.pc = "idle"
    /\ loop = Idle /\ Quiet /\ last.op = ""
    /\ \A c \in Coroutines : calls[c].pc = "new"
    /\ bench' = [bench EXCEPT !.pc = "for", !.models = models,
                              !.iterations = iterations, !.warmup = warmup]
    /\ UNCHANGED <<env, gen, backend, available, info, components, pipe, loop, calls,
                   artifacts, dirs, clock, made, loaderCalls, last>>

\* `for model in models:` with the choice of bench_fn; an unknown model is skipped
\* (lines 150-167), and after the last model the summaries are computed
BenchSelect ==
    /\ bench.pc = "for"
    /\ bench' =
          IF bench.m = Len(bench.models)
          THEN [bench EXCEPT !.pc = "done"]
          ELSE LET model == bench.models[bench.m + 1]
               IN  IF model \notin {"flux", "zimage"}
                   THEN [bench EXCEPT !.m = @ + 1]
                   ELSE [bench EXCEPT
                           !.m = @ + 1, !.i = 0,
                           !.phase = IF bench.warmup > 0 THEN "warmup" ELSE "measure",
                           !.pc = IF bench.warmup > 0 \/ bench.iterations > 0
                                  THEN "construct" ELSE "for"]
    /\ UNCHANGED <<env, gen, backend, available, info, components, pipe, loop, calls,
                   artifacts, dirs, clock, made, loaderCalls, last>>

\* the run of bench_fn that follows one that returned or raised: the next warmup
\* run, the first measured run after the warmup loop ended or broke (line 174),
\* the next measured run, or the next model (lines 168-194)
BenchAdvance(b, raised) ==
    IF b.phase = "warmup"
    THEN IF ~raised /\ b.i + 1 < b.warmup
         THEN [b EXCEPT !.i = @ + 1, !.pc = "construct"]
         ELSE [b EXCEPT !.phase = "measure", !.i = 0,
                        !.pc = IF b.iterations > 0 THEN "construct" ELSE "for"]
    ELSE IF b.i + 1 < b.iterations
         THEN [b EXCEPT !.i = @ + 1, !.pc = "construct"]
         ELSE [b EXCEPT !.phase = "", !.i = 0, !.pc = "for"]

\* an exception leaves benchmark_flux / benchmark_zimage before gen.cleanup() at
\* lines 101 / 127: the generator the frame held is unreachable once the handler
\* at lines 172-174 / 193-194 ends, with whatever it holds, and no cleanup() was
\* called on it
BenchRaise(b) ==
    BenchAdvance([b EXCEPT !.abandoned = @ \cup {b.cur},
                           !.cur = [model |-> "", held |-> FALSE]], TRUE)

\* `gen = ImageGenerator(config)` / `gen = ZImageGenerator(config)` (lines 83, 109)
BenchConstruct ==
    /\ bench.pc = "construct"
    /\ bench' = [bench EXCEPT !.pc = "load",
                              !.cur = [model |-> bench.models[bench.m], held |-> FALSE]]
    /\ IF bench.models[bench.m] = "zimage"
       THEN /\ gen' = NewGen(env, TestConfig)
            /\ components' = NoComponents
            /\ pipe' = "None"
            /\ loaderCalls' = 0
       ELSE UNCHANGED <<gen, components, pipe, loaderCalls>>
    /\ UNCHANGED <<env, backend, available, info, loop, calls, artifacts, dirs, clock,
                   made, last>>

\* `gen.load_model()` (lines 84, 110); ok says whether the FLUX pipeline loads
BenchLoad(ok) ==
    /\ bench.pc = "load"
    /\ IF bench.cur.model = "zimage"
       THEN LET r == LoadModelResult(env, gen, components, FreshId)
                b == [bench EXCEPT !.cur.held = ~r.components.none]
            IN  /\ components' = r.components
                /\ backend' = SetAttentionBackend(backend, gen, r)
                /\ loaderCalls' = CountLoad(loaderCalls, r)
                /\ bench' = IF r.err # NoError THEN BenchRaise(b)
                            ELSE [b EXCEPT !.pc = "generate"]
       ELSE /\ bench' = IF ok THEN [bench EXCEPT !.cur.held = TRUE, !.pc = "generate"]
                         ELSE BenchRaise(bench)
            /\ UNCHANGED <<components, backend, loaderCalls>>
    /\ UNCHANGED <<env, gen, available, info, pipe, loop, calls, artifacts, dirs, clock,
                   made, last>>

\* loop.run_until_complete(gen.generate(prompt, seed=seed)) on a loop of its own,
\* closed afterwards (lines 92-96, 118-122): the call runs to its return or to the
\* exception it raises; ok says whether the sampling succeeds
BenchGenerate(ok) ==
    /\ bench.pc = "generate"
    /\ LET err == IF bench.cur.model # "zimage" THEN NoError
                  ELSE IF GetZimageSrcPath(env) # NoError THEN GetZimageSrcPath(env)
                  ELSE ImportZimage(env)
           seed == IF bench.phase = "warmup" THEN 42 + bench.i ELSE 1000 + bench.i
       IN  IF err # NoError \/ ~ok
           THEN /\ bench' = BenchRaise(bench)
                /\ UNCHANGED <<artifacts, dirs>>
           ELSE /\ bench' = [bench EXCEPT !.pc = "cleanup"]
                /\ IF bench.cur.model = "zimage"
                   THEN \E sv \in {SaveImage(artifacts, dirs, 1, "A red cube",
                                              SeedOf(0, seed), Instants[clock], "ok")} :
                            artifacts' = sv.artifacts /\ dirs' = sv.dirs
                   ELSE UNCHANGED <<artifacts, dirs>>
    /\ UNCHANGED <<env, gen, backend, available, info, components, pipe, loop, calls,
                   clock, made, loaderCalls, last>>

\* `gen.cleanup()` and the return to run_benchmark, which keeps the measurement
\* of a measured run (lines 101-102, 127-128, 171, 181-192)
BenchCleanup ==
    /\ bench.pc = "cleanup"
    /\ LET seed == 1000 + bench.i
           b == [bench EXCEPT
                   !.cur = [model |-> "", held |-> FALSE],
                   !.results = IF bench.phase = "measure"
                               THEN Append(@, [model |-> bench.cur.model,
                                               iteration |-> bench.i + 1, seed |-> seed])
                               ELSE @]
       IN  bench' = BenchAdvance(b, FALSE)
    /\ IF bench.cur.model = "zimage"
       THEN /\ components' = CleanupComponents(components)
            /\ pipe' = BaseCleanup(pipe)
            /\ loaderCalls' = 0
       ELSE UNCHANGED <<components, pipe, loaderCalls>>
    /\ UNCHANGED <<env, gen, backend, available, info, loop, calls, artifacts, dirs, clock,
                   made, last>>

\* the interpreter finalises a generator nothing refers to any more: __del__ runs
\* cleanup() on it (base_generator.py lines 124-126), at a time of its choosing
Finalize(g) ==
    /\ g \in bench.abandoned
    /\ bench' = [bench EXCEPT !.abandoned = @ \ {g}]
    /\ UNCHANGED <<env, gen, backend, available, info, components, pipe, loop, calls,
                   artifacts, dirs, clock, made, loaderCalls, last>>

\* one run_benchmark call, with the loads and the samplings succeeding or raising
NextBench ==
    \/ \E models \in BenchModels, n \in 1..2, w \in 0..1 :
           RunBenchmark(models, n, w)
    \/ BenchSelect
    \/ BenchConstruct
    \/ \E ok \in BOOLEAN : BenchLoad(ok)
    \/ \E ok \in BOOLEAN : BenchGenerate(ok)
    \/ BenchCleanup
    \/ \E g \in bench.abandoned : Finalize(g)

SpecBench == Init /\ [][NextBench]_vars

\* C32: the benchmark holds one loaded generator at a time.  Whenever a run of
\* run_benchmark constructs its generator, no generator of an earlier run, whether
\* that run returned or raised during load or generation, still holds a model on
\* which cleanup was never called.
C32_OneLoadedGenerator ==
    [][BenchConstruct => \A g \in bench.abandoned : ~g.held]_vars

\* C33: a week directory holds one week.  Any two generations whose images
\* _save_image placed in the same <output_root>/<year>/week_<NN> directory took
\* place in the same ISO week, Monday to Sunday, also when they fall in the
\* first and the last days of a calendar year.
C33_WeekDirectoryHoldsOneWeek ==
    \A c, d \in Coroutines :
        (/\ calls[c].pc = "done" /\ calls[d].pc = "done"
         /\ calls[c].result.image_path.parts = calls[d].result.image_path.parts)
        => LET At(x) ==
                   Instants[CHOOSE i \in DOMAIN Instants :
                               calls[x].result.image_path.stem =
                                  "image_" \o Strftime(Instants[i]) \o "_"
                                     \o PromptHash(calls[x].kw.prompt)]
               Day(t) == Ordinal(t.year, t.month, t.day)
               Monday(t) == Day(t) - ((Day(t) + 6) % 7)
           IN  Monday(At(c)) = Monday(At(d))

====
